---- MODULE Spec2Model ----
(***************************************************************************)
(* A model of the helper scripts under src/scripts:                        *)
(*   path_utils.py            dir_path, file_path, get_all_files           *)
(*   construct_javac_args.py  the javac argument-file builder              *)
(*   count_cp.py, count_arg_files.py   the distinct-content counters       *)
(*   extract_test_info.py     the test-info extractor                      *)
(*                                                                         *)
(* Text is a sequence of tokens.  A token is a TLA+ string standing for a  *)
(* piece of text that none of the modelled operations looks inside: one    *)
(* character ("/", ":", ".", the line feed NL, the carriage return CR) or  *)
(* an atomic word (a file name, "junit-", "-classpath ").                  *)
(*                                                                         *)
(* Each script is a straight-line program; one variable pc holds its       *)
(* position and there is one specification per script (SpecArgs,           *)
(* SpecCount, SpecExtract, SpecPath).  The variables of the other scripts  *)
(* stay at their idle value.                                               *)
(***************************************************************************)
EXTENDS Naturals, Integers, Sequences, FiniteSets, TLC

VARIABLES
    pc,               \* position of the running script
    args,             \* argparse namespace of the running script
    fs,               \* the part of the filesystem the script reads
    \* construct_javac_args.py
    dependency_path, files, src_path, classpath, sources, output,
    \* count_cp.py / count_arg_files.py
    todo, source_classpaths, test_classpaths, stdout,
    \* extract_test_info.py
    reports, file, testcases, testsuites, removed, testsuite_names,
    args_file, version, created,
    \* path_utils.py called on its own
    result

vars == <<pc, args, fs, dependency_path, files, src_path, classpath, sources,
          output, todo, source_classpaths, test_classpaths, stdout, reports,
          file, testcases, testsuites, removed, testsuite_names, args_file, version,
          created, result>>

\* dependency_path and classpath are names of both the builder and the extractor.
sharedVars == <<dependency_path, classpath>>
argsVars == <<files, src_path, sources, output>>
countVars == <<todo, source_classpaths, test_classpaths, stdout>>
extractVars == <<reports, file, testcases, testsuites, removed, testsuite_names,
                 args_file, version, created>>
pathVars == <<result>>

\* ------------------------------------------------------------------ bounds

MaxDepLen == 3      \* tokens in the dependency file of the builder
MaxFiles == 2       \* files in one directory of a walked tree
MaxMarkers == 2     \* files met by one walk of a counter
MaxReports == 2     \* files in the reports directory of the extractor
MaxElems == 2       \* child elements of the root of a report
MaxVersionLen == 5  \* tokens in the dependency file when the version is studied

\* ------------------------------------------------------------------- text

NL == "\n"
CR == "\r"
None == <<"<None>">>    \* Python's None, and the content of a file that does not exist
Idle == <<"<idle>">>    \* value of a variable its script does not own

SeqsUpTo(S, n) == UNION {[1..k -> S] : k \in 0..n}

\* Injective sequences over S of length at most n: a directory listing.
Listings(S, n) ==
    {s \in SeqsUpTo(S, n) : \A i, j \in 1..Len(s) : s[i] = s[j] => i = j}

RECURSIVE Flatten(_)
Flatten(ss) == IF ss = <<>> THEN <<>> ELSE Head(ss) \o Flatten(Tail(ss))

StartsWith(s, p) == Len(p) <= Len(s) /\ SubSeq(s, 1, Len(p)) = p
EndsWith(s, p) ==
    Len(p) <= Len(s) /\ SubSeq(s, Len(s) - Len(p) + 1, Len(s)) = p

\* str.join
RECURSIVE Join(_, _)
Join(ss, sep) ==
    IF ss = <<>> THEN <<>>
    ELSE IF Len(ss) = 1 THEN ss[1]
    ELSE ss[1] \o sep \o Join(Tail(ss), sep)

\* str.replace(old, ""): every non-overlapping occurrence, left to right.
RECURSIVE Replace(_, _)
Replace(s, old) ==
    IF s = <<>> \/ old = <<>> THEN s
    ELSE IF StartsWith(s, old)
         THEN Replace(SubSeq(s, Len(old) + 1, Len(s)), old)
         ELSE <<Head(s)>> \o Replace(Tail(s), old)

\* str.split(sep) for a one-token separator: always at least one piece.
RECURSIVE Split(_, _)
Split(s, sep) ==
    IF \A i \in 1..Len(s) : s[i] # sep THEN <<s>>
    ELSE LET i == CHOOSE k \in 1..Len(s) :
                     s[k] = sep /\ \A j \in 1..(k - 1) : s[j] # sep
         IN <<SubSeq(s, 1, i - 1)>> \o Split(SubSeq(s, i + 1, Len(s)), sep)

\* Text-mode open(..., "r"): universal newlines turn "\r\n" and "\r" into "\n".
RECURSIVE Universal(_)
Universal(raw) ==
    IF raw = <<>> THEN <<>>
    ELSE IF Head(raw) = CR
         THEN IF Len(raw) > 1 /\ raw[2] = NL
              THEN <<NL>> \o Universal(SubSeq(raw, 3, Len(raw)))
              ELSE <<NL>> \o Universal(Tail(raw))
         ELSE <<Head(raw)>> \o Universal(Tail(raw))

\* file.readline() on a freshly opened file: through the first "\n" inclusive.
readline(text) ==
    IF \A i \in 1..Len(text) : text[i] # NL THEN text
    ELSE LET i == CHOOSE k \in 1..Len(text) :
                     text[k] = NL /\ \A j \in 1..(k - 1) : text[j] # NL
         IN SubSeq(text, 1, i)

\* file.readlines(): the lines, each keeping its terminator.
RECURSIVE readlines(_)
readlines(text) ==
    IF text = <<>> THEN <<>>
    ELSE LET l == readline(text)
         IN <<l>> \o readlines(SubSeq(text, Len(l) + 1, Len(text)))

\* ------------------------------------------------------------ path_utils

\* The process's view of the directories that exist: fs.dirs is a set of
\* absolute directories, each the sequence of its components (<<>> is "/";
\* a component is a text), and fs.cwd is the current directory.
Components(s) == SelectSeq(Split(s, "/"), LAMBDA c : c # <<>>)

Resolve(s, f) ==
    (IF s # <<>> /\ s[1] = "/" THEN <<>> ELSE f.cwd) \o Components(s)

\* os.path.isdir: os.stat("") fails, so the empty string is no directory.
isdir(s, f) == s # <<>> /\ Resolve(s, f) \in f.dirs

\* str.rstrip("/")
RECURSIVE rstrip(_)
rstrip(s) ==
    IF s # <<>> /\ s[Len(s)] = "/" THEN rstrip(SubSeq(s, 1, Len(s) - 1)) ELSE s

\* posixpath.dirname: everything up to the last "/", trailing slashes removed
\* unless that leaves nothing.
dirname(s) ==
    LET slashes == {k \in 1..Len(s) : s[k] = "/"}
        i == IF slashes = {} THEN 0
             ELSE CHOOSE k \in slashes : \A j \in slashes : j <= k
        head == SubSeq(s, 1, i)
    IN IF head # <<>> /\ rstrip(head) # <<>> THEN rstrip(head) ELSE head

Return(v) == [kind |-> "return", value |-> v]
Raise(e, v) == [kind |-> e, value |-> v]

dir_path(string, f) ==
    IF isdir(string, f) THEN Return(string)
    ELSE Raise("NotADirectoryError", string)

file_path(string, f) ==
    LET dir == dirname(string)
    IN IF isdir(dir, f) THEN Return(string)
       ELSE Raise("NotADirectoryError", string)

\* posixpath.splitext on a bare file name: the extension starts at the last
\* "." unless only "." precede it; <<root, ext>>.
splitext(p) ==
    LET dots == {k \in 1..Len(p) : p[k] = "."}
        dotIndex == IF dots = {} THEN 0
                    ELSE CHOOSE k \in dots : \A j \in dots : j <= k
    IN IF dotIndex > 0 /\ \E k \in 1..(dotIndex - 1) : p[k] # "."
       THEN <<SubSeq(p, 1, dotIndex - 1), SubSeq(p, dotIndex, Len(p))>>
       ELSE <<p, <<>> >>

\* os.path.join(a, b) for a relative b.
join(a, b) ==
    IF a = <<>> \/ a[Len(a)] = "/" THEN a \o b ELSE a \o <<"/">> \o b

\* A walked tree: the files of the top directory and its subdirectories, each
\* with its own files, in the order os.walk lists them.
Trees(Names, DirNames) ==
    {t \in [files : Listings(Names, MaxFiles),
            dirs : {<<>>} \cup
                   {<<d>> : d \in [name : DirNames,
                                    files : Listings(Names, MaxFiles)]}] :
        \A i \in 1..Len(t.dirs) : \A j \in 1..Len(t.files) :
            t.dirs[i].name # t.files[j]}

\* os.walk(top), top-down: (root, dirs, files) for top, then for each subdirectory.
walk(top, tree) ==
    <<[root |-> top, files |-> tree.files]>> \o
    [i \in 1..Len(tree.dirs) |->
        [root |-> join(top, tree.dirs[i].name), files |-> tree.dirs[i].files]]

\* The filter written as str.endswith instead of a comparison of extensions.
get_all_files_endswith(directory, extension, tree) ==
    LET w == walk(directory, tree)
        keep(f) == extension = None \/ EndsWith(f, extension)
        one(e) == LET sel == SelectSeq(e.files, keep)
                  IN [i \in 1..Len(sel) |-> join(e.root, sel[i])]
    IN Flatten([i \in 1..Len(w) |-> one(w[i])])

get_all_files(directory, extension, tree) ==
    LET w == walk(directory, tree)
        keep(f) == extension = None \/ splitext(f)[2] = extension
        one(e) == LET sel == SelectSeq(e.files, keep)
                  IN [i \in 1..Len(sel) |-> join(e.root, sel[i])]
    IN Flatten([i \in 1..Len(w) |-> one(w[i])])

\* ------------------------------------------- path_utils.py called on its own

MaxPathLen == 3     \* tokens in a path handed to dir_path or file_path

PathTokens == {"/", "d", "f"}
Paths == SeqsUpTo(PathTokens, MaxPathLen)

\* "d" names directories, "f" never does: /, /d and /d/d may exist.
DirSets == {{<<>>}, {<<>>, << <<"d">> >>},
            {<<>>, << <<"d">> >>, << <<"d">>, <<"d">> >>}}

ValidateFs == {f \in [dirs : DirSets, cwd : {<<>>, << <<"d">> >>}] :
                  f.cwd \in f.dirs}

FileNames == {<<"a">>, <<".", "xml">>, <<"a", ".", "xml">>,
              <<"a", ".", "tar", ".", "gz">>}
Extensions == {None, <<>>, <<".", "xml">>, <<".", "gz">>,
               <<".", "tar", ".", "gz">>, <<"xml">>}
Directories == {<<"r">>, <<"r", "/">>}

IdleShared == dependency_path = Idle /\ classpath = Idle
IdleArgs == files = Idle /\ src_path = Idle /\ sources = Idle /\ output = Idle
IdleCount ==
    /\ todo = Idle /\ source_classpaths = Idle /\ test_classpaths = Idle
    /\ stdout = Idle
IdleExtract ==
    /\ reports = Idle /\ file = Idle /\ testcases = Idle /\ testsuites = Idle
    /\ removed = Idle /\ testsuite_names = Idle /\ args_file = Idle
    /\ version = Idle /\ created = Idle
IdlePath == result = Idle

InitPath ==
    /\ pc = "start"
    /\ \/ /\ args \in [call : {"dir_path", "file_path"}, string : Paths]
          /\ fs \in ValidateFs
       \/ /\ args \in [call : {"get_all_files"}, directory : Directories,
                        extension : Extensions]
          /\ fs \in [tree : Trees(FileNames, {<<"s">>})]
    /\ result = Idle
    /\ IdleShared /\ IdleArgs /\ IdleCount /\ IdleExtract

CallDirPath ==
    /\ pc = "start" /\ args.call = "dir_path"
    /\ result' = dir_path(args.string, fs)
    /\ pc' = "done"
    /\ UNCHANGED <<args, fs, sharedVars, argsVars, countVars, extractVars>>

CallFilePath ==
    /\ pc = "start" /\ args.call = "file_path"
    /\ result' = file_path(args.string, fs)
    /\ pc' = "done"
    /\ UNCHANGED <<args, fs, sharedVars, argsVars, countVars, extractVars>>

CallGetAllFiles ==
    /\ pc = "start" /\ args.call = "get_all_files"
    /\ result' = Return(get_all_files(args.directory, args.extension, fs.tree))
    /\ pc' = "done"
    /\ UNCHANGED <<args, fs, sharedVars, argsVars, countVars, extractVars>>

NextPath == CallDirPath \/ CallFilePath \/ CallGetAllFiles

SpecPath == InitPath /\ [][NextPath]_vars

\* A path that names a file: it has a last component and no trailing "/".
NamesFile(s) == s # <<>> /\ s[Len(s)] # "/"

\* The directory a file path lies in exists.
ParentExists(s, f) ==
    LET r == Resolve(s, f) IN SubSeq(r, 1, Len(r) - 1) \in f.dirs

\* C7 (as stated): file_path returns its argument unchanged for every file
\* path whose parent directory exists, a bare relative file name in the
\* existing current directory included, and raises NotADirectoryError exactly
\* when the parent directory does not exist.
C7_FilePathFollowsParent ==
    (pc = "done" /\ args.call = "file_path" /\ NamesFile(args.string)) =>
        result = IF ParentExists(args.string, fs)
                 THEN Return(args.string)
                 ELSE Raise("NotADirectoryError", args.string)

\* The files under the walked tree, as <<path, name>>.
FilesUnder(directory, tree) ==
    {<<join(directory, tree.files[i]), tree.files[i]>> :
        i \in 1..Len(tree.files)} \cup
    UNION {{<<join(join(directory, tree.dirs[k].name), tree.dirs[k].files[i]),
              tree.dirs[k].files[i]>> : i \in 1..Len(tree.dirs[k].files)} :
           k \in 1..Len(tree.dirs)}

Range(s) == {s[i] : i \in 1..Len(s)}
Injective(s) == \A i, j \in 1..Len(s) : s[i] = s[j] => i = j

\* e is a proper extension of name: a "." followed by dot-free text that ends
\* the name, with something other than "." before it.
ProperExt(name, e) ==
    /\ e # <<>> /\ e[1] = "." /\ \A k \in 2..Len(e) : e[k] # "."
    /\ EndsWith(name, e)
    /\ \E k \in 1..(Len(name) - Len(e)) : name[k] # "."

\* e is the extension of name (the empty text when name has no proper one).
HasExt(name, e) ==
    \/ ProperExt(name, e)
    \/ e = <<>> /\ ~\E k \in 1..Len(name) :
                       ProperExt(name, SubSeq(name, k, Len(name)))

\* C8 (as stated): get_all_files(D, E) returns exactly the files under D whose
\* name ends with E, each once, names such as ".xml" and extensions such as
\* ".tar.gz" included; without E it returns every file under D.
C8_NameEndsWith ==
    (pc = "done" /\ args.call = "get_all_files") =>
        /\ Injective(result.value)
        /\ Range(result.value) =
               {f[1] : f \in {g \in FilesUnder(args.directory, fs.tree) :
                    args.extension = None \/ EndsWith(g[2], args.extension)}}

\* C8 (amended): get_all_files(D, E) returns exactly the files under D whose
\* extension (the text from the last "." of the name, a name made of leading
\* dots and dot-free text having none) equals E, each once; without E it
\* returns every file under D.
C8_ExtensionEquals ==
    (pc = "done" /\ args.call = "get_all_files") =>
        /\ Injective(result.value)
        /\ Range(result.value) =
               {f[1] : f \in {g \in FilesUnder(args.directory, fs.tree) :
                    args.extension = None \/ HasExt(g[2], args.extension)}}

\* C8 witness: a tree holding ".xml" and "a.xml" was listed for ".xml" and
\* one file came back.
C8_Witness ==
    /\ pc = "done" /\ args.call = "get_all_files"
    /\ args.extension = <<".", "xml">>
    /\ {<<".", "xml">>, <<"a", ".", "xml">>} \subseteq Range(fs.tree.files)
    /\ Len(result.value) = 1

\* ---------------------------------------------------- construct_javac_args.py

DepTokens == {"j", ":", NL}     \* "j" is the path of one dependency archive

\* The directories the builder's arguments name; the current directory is "/".
BuilderDirs ==
    {<<>>, << <<"p">> >>, << <<"p">>, <<"s">> >>, << <<"s">> >>,
     << <<"q">> >>, << <<"q">>, <<"p">> >>}

InitArgs ==
    /\ pc = "start"
    /\ args \in [dependency : {<<"p", "/", "dep">>},
                 projectpath : {<<"p">>},
                 classpath : {<<"cp">>},
                 target : {<<"tgt">>},
                 sourcepath : {<<"sp">>},
                 sourcefiles : {<<"p", "/", "s">>, <<"s">>, <<"q", "/", "p">>},
                 output : {<<"p", "/", "out">>, <<"out">>}]
    /\ fs \in [dirs : {BuilderDirs, BuilderDirs \ {<< <<"s">> >>}, {<<>>}},
               cwd : {<<>>},
               dep : SeqsUpTo(DepTokens, MaxDepLen) \cup {None},
               tree : Trees({<<"a">>, <<"p">>}, {<<"p">>, <<"s">>})]
    /\ IdleShared /\ IdleArgs /\ IdleCount /\ IdleExtract /\ IdlePath

\* parser.parse_args(): each type= function is applied to its argument and an
\* exception of one of them ends the run.
ParseArgs ==
    /\ pc = "start"
    /\ pc' = IF /\ file_path(args.dependency, fs).kind = "return"
                /\ dir_path(args.projectpath, fs).kind = "return"
                /\ dir_path(args.sourcefiles, fs).kind = "return"
                /\ file_path(args.output, fs).kind = "return"
             THEN "read_dependency" ELSE "NotADirectoryError"
    /\ UNCHANGED <<args, fs, sharedVars, argsVars, countVars, extractVars,
                   pathVars>>

\* The first line of the dependency file, with ":" before it unless it is "".
DependencyPath(raw) ==
    LET line == readline(Universal(raw))
    IN IF line = <<>> THEN <<>> ELSE <<":">> \o line

ReadDependency ==
    /\ pc = "read_dependency"
    /\ IF fs.dep = None
       THEN pc' = "FileNotFoundError" /\ UNCHANGED dependency_path
       ELSE pc' = "list_sources" /\ dependency_path' = DependencyPath(fs.dep)
    /\ UNCHANGED <<args, fs, files, src_path, classpath, sources, output,
                   countVars, extractVars, pathVars>>

ListSources ==
    /\ pc = "list_sources"
    /\ files' = get_all_files(args.sourcefiles, None, fs.tree)
    /\ src_path' = [i \in 1..Len(files') |->
                       Replace(files'[i], args.projectpath \o <<"/">>)]
    /\ pc' = "construct"
    /\ UNCHANGED <<args, fs, dependency_path, classpath, sources, output,
                   countVars, extractVars, pathVars>>

Construct ==
    /\ pc = "construct"
    /\ classpath' = args.classpath \o dependency_path
    /\ sources' = Join(src_path, <<NL>>)
    /\ pc' = "write"
    /\ UNCHANGED <<args, fs, dependency_path, files, src_path, output,
                   countVars, extractVars, pathVars>>

WriteOutput ==
    /\ pc = "write"
    /\ output' = <<"-classpath ">> \o classpath \o <<NL>> \o
                  <<"-sourcepath ">> \o args.sourcepath \o <<NL>> \o
                  <<"-d ">> \o args.target \o <<NL>> \o
                  sources
    /\ pc' = "done"
    /\ UNCHANGED <<args, fs, dependency_path, files, src_path, classpath,
                   sources, countVars, extractVars, pathVars>>

NextArgs == ParseArgs \/ ReadDependency \/ ListSources \/ Construct \/ WriteOutput

SpecArgs == InitArgs /\ [][NextArgs]_vars

\* The lines of a text file: the pieces between line feeds, a final line feed
\* ending the last line rather than starting an empty one.
FileLines(text) ==
    IF text = <<>> THEN <<>>
    ELSE IF text[Len(text)] = NL
         THEN Split(SubSeq(text, 1, Len(text) - 1), NL)
         ELSE Split(text, NL)

\* The first line of a text without its terminator.
FirstLine(text) == IF text = <<>> THEN <<>> ELSE Split(text, NL)[1]

\* s without the prefix p, when it starts with p.
StripPrefix(s, p) ==
    IF StartsWith(s, p) THEN SubSeq(s, Len(p) + 1, Len(s)) ELSE s

\* C1 (as stated): for every valid input, a dependency file whose first line
\* ends with a line terminator included, the output is the three header lines
\* "-classpath ...", "-sourcepath ...", "-d ..." followed by exactly one line
\* per file under the source-file root, with no blank or extra line.
C1_ThreeHeadersThenSources ==
    pc = "done" =>
        LET L == FileLines(output)
            N == Cardinality(FilesUnder(args.sourcefiles, fs.tree))
        IN /\ Len(L) = 3 + N
           /\ StartsWith(L[1], <<"-classpath ">>)
           /\ L[2] = <<"-sourcepath ">> \o args.sourcepath
           /\ L[3] = <<"-d ">> \o args.target
           /\ \A i \in 1..Len(L) : L[i] # <<>>

\* C2 (as stated): the first line of the output is "-classpath " + the
\* --classpath argument when the first line of the dependency file is empty,
\* and that followed by ":" and the dependency line when it is not.
C2_ClasspathLine ==
    pc = "done" =>
        LET dep == FirstLine(fs.dep)
        IN FileLines(output)[1] =
               <<"-classpath ">> \o args.classpath \o
               (IF dep = <<>> THEN <<>> ELSE <<":">> \o dep)

\* C3 (as stated): each source line is the discovered path with only its
\* leading project-root prefix (root + "/") removed: a later occurrence of
\* that text stays, and a path that does not start with it is unchanged.
C3_OnlyLeadingPrefixRemoved ==
    pc = "done" =>
        LET found == get_all_files(args.sourcefiles, None, fs.tree)
            want == [i \in 1..Len(found) |->
                        StripPrefix(found[i], args.projectpath \o <<"/">>)]
        IN src_path = want /\ EndsWith(output, Join(want, <<NL>>))

\* ------------------------------------------ count_cp.py, count_arg_files.py

\* The raw contents a walked file may have.
Contents ==
    {<<>>, <<"a">>, <<"b">>, <<"a", NL>>, <<"a", CR, NL>>, <<"a", NL, "a">>,
     <<"a", NL, "b">>, <<"a", NL, NL>>}

CpNames == {"source_cp", "test_cp", "other"}
ArgFileNames ==
    {"args_source_v1.txt", "args_source_v2.txt", "args_test_v2.txt", "other"}

\* What count_cp.py puts into its set for one marker file.
CpText(raw) == readline(Universal(raw))

\* The first line only, where the whole file is meant.
ArgFileText_firstline(raw) == readline(Universal(raw))

\* What count_arg_files.py puts into its set for one marker file.
ArgFileText(raw) == Join(readlines(Universal(raw)), <<NL>>)

\* fs.walk lists the files os.walk meets, in its order, each in a directory of
\* its own (two files of one name never share a directory).
InitCount ==
    /\ pc = "walk"
    /\ \/ /\ args = [script |-> "count_cp"]
          /\ fs \in [walk : SeqsUpTo([name : CpNames, raw : Contents],
                                     MaxMarkers)]
       \/ /\ args = [script |-> "count_arg_files"]
          /\ fs \in [walk : SeqsUpTo([name : ArgFileNames, raw : Contents],
                                     MaxMarkers)]
    /\ todo = fs.walk
    /\ source_classpaths = {}
    /\ test_classpaths = {}
    /\ stdout = <<>>
    /\ IdleShared /\ IdleArgs /\ IdleExtract /\ IdlePath

\* One pass of the inner loop of count_cp.py.
CountCpVisit ==
    /\ pc = "walk" /\ args.script = "count_cp" /\ todo # <<>>
    /\ LET walked == Head(todo)
       IN /\ source_classpaths' =
                 IF walked.name = "source_cp"
                 THEN source_classpaths \cup {CpText(walked.raw)}
                 ELSE source_classpaths
          /\ test_classpaths' =
                 IF walked.name = "test_cp"
                 THEN test_classpaths \cup {CpText(walked.raw)}
                 ELSE test_classpaths
    /\ todo' = Tail(todo)
    /\ UNCHANGED <<pc, args, fs, stdout, sharedVars, argsVars, extractVars,
                   pathVars>>

\* One pass of the inner loop of count_arg_files.py.
CountArgFilesVisit ==
    /\ pc = "walk" /\ args.script = "count_arg_files" /\ todo # <<>>
    /\ LET walked == Head(todo)
       IN /\ source_classpaths' =
                 IF walked.name \in {"args_source_v1.txt", "args_source_v2.txt"}
                 THEN source_classpaths \cup {ArgFileText(walked.raw)}
                 ELSE source_classpaths
          /\ test_classpaths' =
                 IF walked.name = "args_test_v2.txt"
                 THEN test_classpaths \cup {ArgFileText(walked.raw)}
                 ELSE test_classpaths
    /\ todo' = Tail(todo)
    /\ UNCHANGED <<pc, args, fs, stdout, sharedVars, argsVars, extractVars,
                   pathVars>>

\* The two print calls: stdout holds the two printed numbers.
PrintCounts ==
    /\ pc = "walk" /\ todo = <<>>
    /\ stdout' = <<Cardinality(source_classpaths), Cardinality(test_classpaths)>>
    /\ pc' = "done"
    /\ UNCHANGED <<args, fs, todo, source_classpaths, test_classpaths,
                   sharedVars, argsVars, extractVars, pathVars>>

NextCount == CountCpVisit \/ CountArgFilesVisit \/ PrintCounts

SpecCount == InitCount /\ [][NextCount]_vars

SourceMarkers ==
    IF args.script = "count_cp" THEN {"source_cp"}
    ELSE {"args_source_v1.txt", "args_source_v2.txt"}
TestMarkers ==
    IF args.script = "count_cp" THEN {"test_cp"} ELSE {"args_test_v2.txt"}

\* The raw contents of the walked files named in names.
RawOf(names) ==
    {fs.walk[i].raw : i \in {k \in 1..Len(fs.walk) : fs.walk[k].name \in names}}

\* The text a counter looks at: the text-mode reading of the file, cut after
\* its first line feed for count_cp.
Looked(raw) ==
    LET t == Universal(raw)
    IN IF args.script = "count_cp" /\ NL \in Range(t)
       THEN FirstLine(t) \o <<NL>> ELSE t

\* C4 (as stated): the printed count of a kind is the number of distinct
\* contents among the marker files of that kind, for both counters.
C4_CountsDistinctContents ==
    pc = "done" =>
        stdout = <<Cardinality(RawOf(SourceMarkers)),
                   Cardinality(RawOf(TestMarkers))>>

\* C4 (amended): the printed count of a kind is the number of distinct texts
\* the counter looks at among the marker files of that kind: the first line,
\* terminator included, for count_cp and the whole text for count_arg_files,
\* both as a text-mode read gives them ("\r\n" and "\r" read as "\n").
C4_CountsDistinctLookedText ==
    pc = "done" =>
        stdout = <<Cardinality({Looked(r) : r \in RawOf(SourceMarkers)}),
                   Cardinality({Looked(r) : r \in RawOf(TestMarkers)})>>

\* C4 witness: count_cp met two source_cp files whose contents differ after
\* the first line and printed 1 for them.
C4_Witness ==
    /\ pc = "done" /\ args.script = "count_cp"
    /\ \E i, j \in 1..Len(fs.walk) :
          /\ fs.walk[i].name = "source_cp" /\ fs.walk[j].name = "source_cp"
          /\ fs.walk[i].raw = <<"a", NL, "a">>
          /\ fs.walk[j].raw = <<"a", NL, "b">>
    /\ stdout = <<1, 0>>

\* ------------------------------------------------------ extract_test_info.py

\* ET.tostring(child, encoding="unicode") of the child elements a testcase may
\* have: a one-line failure, and an error whose text holds a line break.
ChildTexts == {<<"<failure/>">>, <<"<error>", NL, "</error>">>}

Clean == [tag |-> "testcase", classname |-> "C", name |-> "m", kids |-> <<>>]
Failed ==
    [tag |-> "testcase", classname |-> "C", name |-> "n",
     kids |-> << <<"<failure/>">>, <<"<error>", NL, "</error>">> >>]
\* A child of a testsuite element that is no testcase.
Properties == [tag |-> "properties", classname |-> "", name |-> "", kids |-> <<>>]
SuiteChildren == {Clean, Failed, Properties}

\* A report that is not well-formed XML.
Malformed == [tag |-> "<malformed>", name |-> "", children |-> <<>>]

\* Reports rooted at a testsuite element; a properties element comes first.
SuiteDocs ==
    [tag : {"testsuite"}, name : {"S"},
     children : {c \in SeqsUpTo(SuiteChildren, MaxElems) :
                    \A i \in 2..Len(c) : c[i] # Properties}]

\* Reports rooted at a container of testsuite elements.
Nested == [tag |-> "testsuite", name |-> "T", children |-> <<Clean, Failed>>]
ContainerDocs ==
    [tag : {"testsuites"}, name : {"all"}, children : SeqsUpTo({Nested}, MaxElems)]

Docs == SuiteDocs \cup ContainerDocs \cup {Malformed}

\* A file of the reports directory: its extension and, for a report, its document.
ReportFiles ==
    [ext : {<<".", "xml">>}, doc : Docs] \cup
    [ext : {<<".", "txt">>}, doc : {Malformed}]

\* The i-th file of the reports directory is named <i><ext>.
ReportName(listing, i) == <<ToString(i)>> \o listing[i].ext
ReportTree(listing) ==
    [files |-> [i \in 1..Len(listing) |-> ReportName(listing, i)], dirs |-> <<>>]

\* ET.parse(file).getroot()
DocAt(path) ==
    LET i == CHOOSE k \in 1..Len(fs.listing) :
                 join(args.reports, ReportName(fs.listing, k)) = path
    IN fs.listing[i].doc

\* Element.findall(tag): the direct children with that tag.
findall(element, tag) == SelectSeq(element.children, LAMBDA e : e.tag = tag)

TestId(testcase) == <<testcase.classname, "#", testcase.name>>

\* Lines 24-30: what one report adds to testsuites.txt.
SuiteLines(root) ==
    IF root.tag = "testsuite" THEN <<root.name, NL>>
    ELSE Flatten([i \in 1..Len(findall(root, "testsuite")) |->
                     <<findall(root, "testsuite")[i].name, NL>>])

\* Lines 24-30: what one report adds to testsuite_names.
SuiteNames(root) ==
    IF root.tag = "testsuite" THEN <<root.name>>
    ELSE [i \in 1..Len(findall(root, "testsuite")) |-> root.name]

\* Lines 36-38: the block of one testcase that has child elements.
RemovedBlock(testcase) ==
    <<" ---------- ">> \o TestId(testcase) \o <<" ----------", NL>> \o
    Flatten([i \in 1..Len(testcase.kids) |-> testcase.kids[i] \o <<NL>>])

\* Lines 33-40: what one report adds to removed.txt.
RemovedText(root) ==
    LET tc == findall(root, "testcase")
    IN Flatten([i \in 1..Len(tc) |->
                   IF Len(tc[i].kids) > 0 THEN RemovedBlock(tc[i]) ELSE <<>>])

\* The else of line 39 forgotten: every testcase is listed.
CaseLines_all(root) ==
    LET tc == findall(root, "testcase")
    IN Flatten([i \in 1..Len(tc) |-> TestId(tc[i]) \o <<NL>>])

\* Lines 33-40: what one report adds to testcases.txt.
CaseLines(root) ==
    LET tc == findall(root, "testcase")
    IN Flatten([i \in 1..Len(tc) |->
                   IF Len(tc[i].kids) > 0 THEN <<>>
                   ELSE TestId(tc[i]) \o <<NL>>])

\* re.search(r"junit-[\d*.]+", dependency): the position of the first "junit-"
\* that a digit, "*" or "." follows, or 0.  "junit-" is one token.
VersionChars == {"3", "4", "5", "1", "*", "."}
SearchJunit(dependency) ==
    LET hits == {k \in 1..(Len(dependency) - 1) :
                    dependency[k] = "junit-" /\ dependency[k + 1] \in VersionChars}
    IN IF hits = {} THEN 0 ELSE CHOOSE k \in hits : \A j \in hits : k <= j

\* re.search(r"junit-jupiter", dependency)
SearchJupiter(dependency) ==
    \E k \in 1..(Len(dependency) - 1) :
        dependency[k] = "junit-" /\ dependency[k + 1] = "jupiter"

\* Lines 57-65: what the loop over dependency_path.split(":") writes.
VersionText(path) ==
    LET deps == Split(path, ":")
        one(dependency) ==
            (IF SearchJunit(dependency) > 0
             THEN <<dependency[SearchJunit(dependency) + 1]>> ELSE <<>>) \o
            (IF SearchJupiter(dependency) THEN <<"5">> ELSE <<>>)
    IN Flatten([i \in 1..Len(deps) |-> one(deps[i])])

ExtractDirs == {<<>>, << <<"c">> >>, << <<"t">> >>, << <<"r">> >>, << <<"o">> >>}

ExtractArgs ==
    [dependency |-> <<"c", "/", "dep">>, classes |-> <<"c">>,
     testclasses |-> <<"t">>, reports |-> <<"r">>, output |-> <<"o">>]

InitExtractWith(Listing, Dep) ==
    /\ pc = "start"
    /\ args = ExtractArgs
    /\ fs \in [dirs : {ExtractDirs}, cwd : {<<>>}, dep : Dep, listing : Listing]
             \cup [dirs : {ExtractDirs \ {<< <<"o">> >>}}, cwd : {<<>>},
                   dep : {None}, listing : Listing]
    /\ reports = <<>> /\ file = 0
    /\ testcases = None /\ testsuites = None /\ removed = None
    /\ args_file = None /\ version = None
    /\ testsuite_names = <<>>
    /\ created = <<>>
    /\ dependency_path = <<>> /\ classpath = <<>>
    /\ IdleArgs /\ IdleCount /\ IdlePath

\* Lines 6-12: parser.parse_args() applies the type= functions.
ExtractParseArgs ==
    /\ pc = "start"
    /\ pc' = IF /\ file_path(args.dependency, fs).kind = "return"
                /\ dir_path(args.classes, fs).kind = "return"
                /\ dir_path(args.testclasses, fs).kind = "return"
                /\ dir_path(args.reports, fs).kind = "return"
                /\ dir_path(args.output, fs).kind = "return"
             THEN "list_reports" ELSE "NotADirectoryError"
    /\ UNCHANGED <<args, fs, sharedVars, argsVars, countVars, extractVars,
                   pathVars>>

\* Lines 14-19: the reports are listed, then the three outputs are opened "w".
OpenOutputs ==
    /\ pc = "list_reports"
    /\ reports' = get_all_files(args.reports, <<".", "xml">>,
                                ReportTree(fs.listing))
    /\ testcases' = <<>> /\ testsuites' = <<>> /\ removed' = <<>>
    /\ testsuite_names' = <<>>
    /\ created' = created \o <<"testcases.txt", "testsuites.txt", "removed.txt">>
    /\ pc' = "loop"
    /\ UNCHANGED <<args, fs, file, args_file, version, sharedVars, argsVars,
                   countVars, pathVars>>

\* Lines 21-40: one pass of the loop over the reports.
ProcessReport ==
    /\ pc = "loop" /\ file < Len(reports)
    /\ file' = file + 1
    /\ LET root == DocAt(reports[file + 1])
       IN IF root = Malformed
          THEN /\ pc' = "ParseError"
               /\ UNCHANGED <<testcases, testsuites, removed, testsuite_names>>
          ELSE /\ pc' = pc
               /\ testsuites' = testsuites \o SuiteLines(root)
               /\ testsuite_names' = testsuite_names \o SuiteNames(root)
               /\ removed' = removed \o RemovedText(root)
               /\ testcases' = testcases \o CaseLines(root)
    /\ UNCHANGED <<args, fs, reports, args_file, version, created, sharedVars,
                   argsVars, countVars, pathVars>>

\* args_junit.txt opened before the dependency file is read.
ExtractReadDependency_opensArgsFirst ==
    /\ pc = "loop" /\ file = Len(reports)
    /\ created' = Append(created, "args_junit.txt")
    /\ IF fs.dep = None
       THEN pc' = "FileNotFoundError" /\ UNCHANGED dependency_path
       ELSE pc' = "args_junit" /\ dependency_path' = DependencyPath(fs.dep)
    /\ UNCHANGED <<args, fs, classpath, argsVars, countVars, reports, file,
                   testcases, testsuites, removed, testsuite_names, args_file,
                   version, pathVars>>

\* Lines 42-48: the loop is over; two outputs are closed and the first line
\* of the dependency file is read.
ExtractReadDependency ==
    /\ pc = "loop" /\ file = Len(reports)
    /\ IF fs.dep = None
       THEN pc' = "FileNotFoundError" /\ UNCHANGED dependency_path
       ELSE pc' = "args_junit" /\ dependency_path' = DependencyPath(fs.dep)
    /\ UNCHANGED <<args, fs, classpath, argsVars, countVars, extractVars,
                   pathVars>>

\* Lines 50-53
WriteArgsFile ==
    /\ pc = "args_junit"
    /\ classpath' = args.testclasses \o <<":">> \o args.classes \o dependency_path
    /\ args_file' = <<"--classpath ">> \o classpath' \o <<NL>>
    /\ created' = Append(created, "args_junit.txt")
    /\ pc' = "version"
    /\ UNCHANGED <<args, fs, dependency_path, reports, file, testcases,
                   testsuites, removed, testsuite_names, version, argsVars,
                   countVars, pathVars>>

\* Lines 56-67
WriteVersion ==
    /\ pc = "version"
    /\ version' = VersionText(dependency_path)
    /\ created' = Append(created, "version.txt")
    /\ pc' = "done"
    /\ UNCHANGED <<args, fs, sharedVars, reports, file, testcases, testsuites,
                   removed, testsuite_names, args_file, argsVars, countVars,
                   pathVars>>

NextExtract ==
    \/ ExtractParseArgs \/ OpenOutputs \/ ProcessReport
    \/ ExtractReadDependency \/ WriteArgsFile \/ WriteVersion

\* The extractor over report directories of every shape.
InitExtract ==
    InitExtractWith(SeqsUpTo(ReportFiles, MaxReports),
                    {None, <<"/", "junit-", "4", NL>>})

SpecExtract == InitExtract /\ [][NextExtract]_vars

\* The extractor over dependency files of every shape, with at most one report.
VersionTokens == {"/", "junit-", "jupiter", "4", "x"}
InitVersion ==
    InitExtractWith({<<>>, <<[ext |-> <<".", "xml">>,
                             doc |-> [tag |-> "testsuite", name |-> "S",
                                      children |-> <<Clean>>]]>>},
                    SeqsUpTo(VersionTokens, MaxVersionLen) \cup {None})

SpecVersion == InitVersion /\ [][NextExtract]_vars

\* The documents of the .xml files of the reports directory, in listing order.
XmlDocs ==
    LET xml == SelectSeq(fs.listing, LAMBDA e : e.ext = <<".", "xml">>)
    IN [i \in 1..Len(xml) |-> xml[i].doc]

\* The for loop has ended normally and the dependency file was read.
LoopOver == pc \in {"args_junit", "version", "done"}

\* The direct testcase children of the roots of docs, in order.
DirectCases(docs) ==
    Flatten([i \in 1..Len(docs) |->
                SelectSeq(docs[i].children, LAMBDA e : e.tag = "testcase")])

\* The testcase elements under the roots of docs: the direct children of a
\* testsuite root, and those of the testsuite children of a container root.
AllCases(docs) ==
    LET cases(e) == SelectSeq(e.children, LAMBDA c : c.tag = "testcase")
    IN Flatten([i \in 1..Len(docs) |->
                   IF docs[i].tag = "testsuite" THEN cases(docs[i])
                   ELSE Flatten([k \in 1..Len(docs[i].children) |->
                                    cases(docs[i].children[k])])])

IsClean(c) == c.kids = <<>>
NotClean(c) == c.kids # <<>>

\* testcases.txt for these testcases: "classname#name" for each clean one.
WantCases(cases) ==
    LET clean == SelectSeq(cases, IsClean)
    IN Flatten([i \in 1..Len(clean) |->
                   <<clean[i].classname, "#", clean[i].name, NL>>])

\* removed.txt for these testcases: for each one that is not clean a separator
\* line, then each child's serialisation followed by a line feed.
WantRemoved(cases) ==
    LET bad == SelectSeq(cases, NotClean)
    IN Flatten([i \in 1..Len(bad) |->
                   <<" ---------- ", bad[i].classname, "#", bad[i].name,
                     " ----------", NL>> \o
                   Flatten([k \in 1..Len(bad[i].kids) |->
                               bad[i].kids[k] \o <<NL>>])])

\* testsuites.txt for these reports: the root's name, or the names of the
\* testsuite children of a container root.
WantSuites(docs) ==
    Flatten([i \in 1..Len(docs) |->
                IF docs[i].tag = "testsuite" THEN <<docs[i].name, NL>>
                ELSE Flatten([k \in 1..Len(docs[i].children) |->
                                 <<docs[i].children[k].name, NL>>])])

RECURSIVE Sum(_)
Sum(ns) == IF ns = <<>> THEN 0 ELSE Head(ns) + Sum(Tail(ns))

Count(text, token) == Cardinality({k \in 1..Len(text) : text[k] = token})

AllSuiteRooted == \A i \in 1..Len(XmlDocs) : XmlDocs[i].tag = "testsuite"
AllWellFormed == \A i \in 1..Len(XmlDocs) : XmlDocs[i] # Malformed

\* C5 (as stated): over reports rooted at a testsuite element, a testcase
\* without child adds one line "classname#name" to testcases.txt and nothing
\* to removed.txt, one with children adds one block to removed.txt (a separator
\* line plus one line per child) and nothing to testcases.txt, each report adds
\* one line to testsuites.txt, and duplicates are written again.
C5_BlockHasOneLinePerChild ==
    (LoopOver /\ AllSuiteRooted) =>
        LET cases == DirectCases(XmlDocs)
            bad == SelectSeq(cases, NotClean)
        IN /\ testcases = WantCases(cases)
           /\ testsuites = WantSuites(XmlDocs)
           /\ Count(removed, " ---------- ") = Len(bad)
           /\ Len(FileLines(removed)) =
                  Sum([i \in 1..Len(bad) |-> 1 + Len(bad[i].kids)])

\* C5 (amended): as stated, except that the block of a testcase with children
\* is the separator line followed by the serialised XML of each child and a
\* line feed: a child takes one line only when its serialisation holds no
\* line break.
C5_EveryCaseInOneArtifact ==
    (LoopOver /\ AllSuiteRooted) =>
        LET cases == DirectCases(XmlDocs)
        IN /\ testcases = WantCases(cases)
           /\ testsuites = WantSuites(XmlDocs)
           /\ removed = WantRemoved(cases)
           /\ Len(FileLines(testcases)) = Len(SelectSeq(cases, IsClean))
           /\ Count(removed, " ---------- ") = Len(SelectSeq(cases, NotClean))
           /\ Len(FileLines(testsuites)) = Len(XmlDocs)

\* C5 witness: two testsuite-rooted reports that both hold the same clean
\* testcase and a failed one were processed, and testcases.txt has the clean
\* identifier twice.
C5_Witness ==
    /\ pc = "done" /\ AllSuiteRooted /\ Len(XmlDocs) = 2
    /\ XmlDocs[1].children = <<Clean, Failed>>
    /\ XmlDocs[2].children = <<Failed, Clean>>
    /\ testcases = <<"C", "#", "m", NL, "C", "#", "m", NL>>
    /\ Count(removed, " ---------- ") = 2

\* The archive a dependency path names: its last component.
Archive(path) == LET c == Split(path, "/") IN c[Len(c)]

\* C6 (as stated): when the first line of the dependency file is a single
\* path, version.txt is exactly "5" if the path names a junit-jupiter archive
\* and exactly the major-version digit if it names a junit-<version> archive,
\* and its content is always made of the markers "3", "4", "5".
C6_VersionOfSinglePath ==
    pc = "done" =>
        LET line == FirstLine(fs.dep)
        IN (line # <<>> /\ ":" \notin Range(line)) =>
              /\ StartsWith(Archive(line), <<"junit-", "jupiter">>) =>
                     version = <<"5">>
              /\ StartsWith(Archive(line), <<"junit-", "4">>) =>
                     version = <<"4">>
              /\ Range(version) \subseteq {"3", "4", "5"}

\* C9 (as stated): every testcase under the root of a well-formed report,
\* those inside the testsuite children of a container root included, is
\* written to exactly one of testcases.txt and removed.txt, and the name of
\* each direct testsuite child goes to testsuites.txt.
C9_NestedCasesRecorded ==
    (LoopOver /\ AllWellFormed) =>
        LET cases == AllCases(XmlDocs)
        IN /\ testsuites = WantSuites(XmlDocs)
           /\ Len(FileLines(testcases)) = Len(SelectSeq(cases, IsClean))
           /\ Count(removed, " ---------- ") = Len(SelectSeq(cases, NotClean))

Artifacts ==
    <<"testcases.txt", "testsuites.txt", "removed.txt", "args_junit.txt",
      "version.txt">>

\* The reports that come before the first malformed one.
BeforeMalformed ==
    LET k == CHOOSE i \in 1..Len(XmlDocs) :
                 XmlDocs[i] = Malformed /\ \A j \in 1..(i - 1) : XmlDocs[j] # Malformed
    IN SubSeq(XmlDocs, 1, k - 1)

\* The three report artifacts hold what these reports give, args_junit.txt
\* and version.txt were not created.
OnlyReportsWritten(docs) ==
    /\ created = SubSeq(Artifacts, 1, 3)
    /\ testcases = WantCases(DirectCases(docs))
    /\ removed = WantRemoved(DirectCases(docs))
    /\ testsuites = WantSuites(docs)
    /\ args_file = None /\ version = None

\* C10: the outputs are created in the fixed order testcases.txt,
\* testsuites.txt, removed.txt, args_junit.txt, version.txt, after the
\* validation of all arguments, and an error ends the run where it is: a
\* validation failure before any output is created, a malformed report with
\* the output of the earlier reports in place and nothing of the later ones,
\* a missing dependency file with the three report artifacts complete and
\* args_junit.txt and version.txt not created.
C10_FixedOrderErrorsFatal ==
    /\ \E n \in {0, 3, 4, 5} : created = SubSeq(Artifacts, 1, n)
    /\ pc \notin {"start", "NotADirectoryError"} => fs.dirs = ExtractDirs
    /\ pc \in {"start", "NotADirectoryError", "list_reports"} =>
           /\ created = <<>>
           /\ testcases = None /\ testsuites = None /\ removed = None
           /\ args_file = None /\ version = None
    /\ pc = "NotADirectoryError" => fs.dirs # ExtractDirs
    /\ pc = "ParseError" =>
           /\ ~AllWellFormed
           /\ OnlyReportsWritten(BeforeMalformed)
    /\ pc = "FileNotFoundError" =>
           /\ fs.dep = None /\ AllWellFormed
           /\ OnlyReportsWritten(XmlDocs)
    /\ pc = "done" => created = Artifacts /\ fs.dep # None /\ AllWellFormed
    /\ pc \in {"NotADirectoryError", "ParseError", "FileNotFoundError"} =>
           ~ENABLED NextExtract

\* C10 witness: the second report was malformed and the run ended there with
\* the first report's testcase in testcases.txt.
C10_Witness ==
    /\ pc = "ParseError" /\ file = 2
    /\ testcases = <<"C", "#", "m", NL>>
    /\ created = SubSeq(Artifacts, 1, 3)

====
